---- MODULE Spec2Model ----
(***************************************************************************)
(* SimpleTftp: the TFTP client engine of tftp.py (check_remote_file,       *)
(* get_file, put_file, dir_file) and its packet codec, as a state machine. *)
(*                                                                         *)
(* A datagram is the sequence of its bytes (0..255).  A Python str is the  *)
(* sequence of its code points.  One engine call runs at a time (the       *)
(* client is single-threaded); a call is one action up to its first        *)
(* sock.recvfrom, and then one action per loop iteration (one recvfrom and *)
(* everything the code does with what it returned).  What recvfrom returns *)
(* (a datagram and its source address, or socket.timeout) is the           *)
(* environment's choice.  So is whether open() of the local file succeeds  *)
(* and what the destination held before; sock.sendto and os.path.getsize   *)
(* are taken to succeed.  print and the tqdm progress bar are left out.    *)
(*                                                                         *)
(* Five specifications share the state: Spec (the engine called directly), *)
(* SpecLate (the three transfers near block 65535), SpecTerm (one call     *)
(* followed to its end, with fair receives), SpecCodec (the pack and       *)
(* unpack functions on their own) and SpecCli (cliente.py's main and shell *)
(* driving the engine).                                                    *)
(***************************************************************************)
EXTENDS Integers, Sequences, FiniteSets, TLC

(***************************************************************************)
(* Bounds of the model.                                                    *)
(***************************************************************************)
\* datagrams or timeouts one engine call may receive
MaxRecv == 3
\* engine calls made one after the other in one behaviour
MaxCalls == 2

(***************************************************************************)
(* Protocol constants (tftp.py 20-48).                                     *)
(***************************************************************************)
MAX_DATA_LEN == 512
MAX_BLOCK_NUMBER == 65535
DEFAULT_BUFFER_SIZE == 1024
DEFAULT_MODE == <<111, 99, 116, 101, 116>>
RRQ == 1
WRQ == 2
DAT == 3
ACK == 4
ERR == 5
ERR_FILE_NOT_FOUND == 1
\* ERROR_MESSAGES (tftp.py 50-60): the canonical message of each error code
ERROR_MESSAGES ==
    \* 'Not defined, see error message(if any).'
       (0 :> <<78, 111, 116, 32, 100, 101, 102, 105, 110, 101, 100, 44, 32, 115,
             101, 101, 32, 101, 114, 114, 111, 114, 32, 109, 101, 115, 115, 97,
             103, 101, 40, 105, 102, 32, 97, 110, 121, 41, 46>>)
    \* 'File not found'
    @@ (1 :> <<70, 105, 108, 101, 32, 110, 111, 116, 32, 102, 111, 117, 110, 100>>)
    \* 'Access violation'
    @@ (2 :> <<65, 99, 99, 101, 115, 115, 32, 118, 105, 111, 108, 97, 116, 105,
             111, 110>>)
    \* 'Disk full or allocation exceeded.'
    @@ (3 :> <<68, 105, 115, 107, 32, 102, 117, 108, 108, 32, 111, 114, 32, 97,
             108, 108, 111, 99, 97, 116, 105, 111, 110, 32, 101, 120, 99, 101, 101,
             100, 101, 100, 46>>)
    \* 'Illegal TFTP operation'
    @@ (4 :> <<73, 108, 108, 101, 103, 97, 108, 32, 84, 70, 84, 80, 32, 111, 112,
             101, 114, 97, 116, 105, 111, 110>>)
    \* 'Unkown Transfer ID'
    @@ (5 :> <<85, 110, 107, 111, 119, 110, 32, 84, 114, 97, 110, 115, 102, 101,
             114, 32, 73, 68>>)
    \* 'File already exists'
    @@ (6 :> <<70, 105, 108, 101, 32, 97, 108, 114, 101, 97, 100, 121, 32, 101,
             120, 105, 115, 116, 115>>)
    \* 'No such user'
    @@ (7 :> <<78, 111, 32, 115, 117, 99, 104, 32, 117, 115, 101, 114>>)

(***************************************************************************)
(* Python slices and struct.                                               *)
(***************************************************************************)
\* s[:n]
Take(s, n) == SubSeq(s, 1, IF Len(s) < n THEN Len(s) ELSE n)
\* s[n:]
Drop(s, n) == SubSeq(s, n + 1, Len(s))
\* s[n:-1]
DropLast(s, n) == SubSeq(s, n + 1, Len(s) - 1)
\* struct.pack('!H', n), 0 <= n <= 65535: big-endian
PackH(n) == <<n \div 256, n % 256>>
\* struct.unpack('!H', b) of a 2-byte b
UnpackH(b) == b[1] * 256 + b[2]

(***************************************************************************)
(* The outcome of a codec function: the value it returns, or the exception *)
(* it raises.                                                              *)
(***************************************************************************)
Ok(v) == [exc |-> "none", val |-> v]
Raise(e) == [exc |-> e, val |-> <<>>]

\* a slip: every text is taken for printable
is_ascii_printable_any(txt) == TRUE

\* string.printable: digits, letters, punctuation, and \t \n \r \x0b \x0c ' '
is_ascii_printable(txt) == \A i \in 1..Len(txt) : txt[i] \in (32..126) \cup (9..13)

(***************************************************************************)
(* str.encode() and bytes.decode(): UTF-8.  The strings of this model have *)
(* code points below 0x800 (one or two bytes each), and its byte strings   *)
(* have no lead byte of a three- or four-byte sequence (0xE0..0xF4).       *)
(***************************************************************************)
Utf8Char(c) == IF c < 128 THEN <<c>> ELSE <<192 + (c \div 64), 128 + (c % 64)>>

RECURSIVE Utf8Encode(_)
Utf8Encode(str) ==
    IF str = <<>> THEN <<>> ELSE Utf8Char(Head(str)) \o Utf8Encode(Tail(str))

\* a byte below 0x80 is itself; 0xC2..0xDF opens a two-byte sequence and
\* needs a continuation byte 0x80..0xBF; anything else is rejected
RECURSIVE Utf8Decode(_)
Utf8Decode(b) ==
    IF b = <<>> THEN Ok(<<>>)
    ELSE IF b[1] < 128
    THEN LET rest == Utf8Decode(Tail(b))
         IN  IF rest.exc # "none" THEN rest ELSE Ok(<<b[1]>> \o rest.val)
    ELSE IF b[1] \in 194..223 /\ Len(b) >= 2 /\ b[2] \in 128..191
    THEN LET rest == Utf8Decode(Drop(b, 2))
         IN  IF rest.exc # "none" THEN rest
             ELSE Ok(<<(b[1] - 192) * 64 + (b[2] - 128)>> \o rest.val)
    ELSE Raise("UnicodeDecodeError")

pack_rrq_wrq(opcode, filename, mode) ==
    IF ~is_ascii_printable(filename) THEN Raise("TFTPValueError")
    ELSE Ok(PackH(opcode) \o (Utf8Encode(filename) \o <<0>>) \o (Utf8Encode(mode) \o <<0>>))

pack_rrq(filename) == pack_rrq_wrq(RRQ, filename, DEFAULT_MODE)

pack_wrq(filename) == pack_rrq_wrq(WRQ, filename, DEFAULT_MODE)

\* a slip: the block number is reduced to 16 bits instead of refused
pack_dat_wrap(block_number, data) ==
    IF Len(data) > MAX_DATA_LEN THEN Raise("TFTPValueError")
    ELSE Ok(PackH(DAT) \o PackH(block_number % (MAX_BLOCK_NUMBER + 1)) \o data)

pack_dat(block_number, data) ==
    IF ~(0 <= block_number /\ block_number <= MAX_BLOCK_NUMBER) THEN Raise("TFTPValueError")
    ELSE IF Len(data) > MAX_DATA_LEN THEN Raise("TFTPValueError")
    ELSE Ok(PackH(DAT) \o PackH(block_number) \o data)

pack_ack(block_number) ==
    IF ~(0 <= block_number /\ block_number <= MAX_BLOCK_NUMBER) THEN Raise("TFTPValueError")
    ELSE Ok(PackH(ACK) \o PackH(block_number))

\* struct.unpack('!H', packet[:2]) raises struct.error unless it gets 2 bytes
unpack_opcode(packet) ==
    IF Len(Take(packet, 2)) # 2 THEN Raise("struct.error")
    ELSE IF UnpackH(Take(packet, 2)) \notin {RRQ, WRQ, DAT, ACK, ERR} THEN Raise("TFTPValueError")
    ELSE Ok(UnpackH(Take(packet, 2)))

\* returns (block_number, data)
unpack_dat(packet) ==
    IF Len(Take(packet, 4)) # 4 THEN Raise("struct.error")
    ELSE IF UnpackH(Take(packet, 2)) # DAT THEN Raise("TFTPValueError")
    ELSE Ok([block_number |-> UnpackH(SubSeq(packet, 3, 4)), data |-> Drop(packet, 4)])

\* struct.unpack('!HH', packet): the whole packet must be 4 bytes
unpack_ack(packet) ==
    IF Len(packet) # 4 THEN Raise("struct.error")
    ELSE IF UnpackH(Take(packet, 2)) # ACK THEN Raise("TFTPValueError")
    ELSE Ok(UnpackH(SubSeq(packet, 3, 4)))

\* error_msg = None: no str (a str has no negative code point)
None == <<-1>>

\* a slip: the caller's message is dropped for the canonical one
pack_err_canonical(error_code, error_msg) ==
    IF error_code \notin DOMAIN ERROR_MESSAGES THEN Raise("TFTPValueError")
    ELSE Ok(PackH(ERR) \o PackH(error_code) \o (Utf8Encode(ERROR_MESSAGES[error_code]) \o <<0>>))

\* a slip: a code above 7 is packed with an empty message
pack_err_any_code(error_code, error_msg) ==
    IF error_code < 0 THEN Raise("TFTPValueError")
    ELSE Ok(PackH(ERR) \o PackH(error_code)
            \o (Utf8Encode(IF error_msg # None THEN error_msg
                           ELSE IF error_code \in DOMAIN ERROR_MESSAGES
                           THEN ERROR_MESSAGES[error_code] ELSE <<>>) \o <<0>>))

pack_err(error_code, error_msg) ==
    IF error_code \notin DOMAIN ERROR_MESSAGES THEN Raise("TFTPValueError")
    ELSE Ok(PackH(ERR) \o PackH(error_code)
            \o (Utf8Encode(IF error_msg = None THEN ERROR_MESSAGES[error_code]
                           ELSE error_msg) \o <<0>>))

\* returns (error_code, error_msg)
unpack_err(packet) ==
    IF Len(Take(packet, 4)) # 4 THEN Raise("struct.error")
    ELSE IF UnpackH(Take(packet, 2)) # ERR THEN Raise("TFTPValueError")
    ELSE LET msg == Utf8Decode(DropLast(packet, 4))
         IN  IF msg.exc # "none" THEN msg
             ELSE Ok([error_code |-> UnpackH(SubSeq(packet, 3, 4)), error_msg |-> msg.val])

\* packet.index(b'\x00', 2): the 1-based place of the first NUL after the
\* opcode, 0 when there is none (Python raises ValueError)
IndexNul(packet) ==
    IF \E i \in 3..Len(packet) : packet[i] = 0
    THEN CHOOSE i \in 3..Len(packet) :
            packet[i] = 0 /\ \A j \in 3..(i - 1) : packet[j] # 0
    ELSE 0

\* returns (filename, mode)
unpack_rrq_wrq(opcode, packet) ==
    LET received_opcode == unpack_opcode(packet)
        delim_pos == IndexNul(packet)
        filename == Utf8Decode(SubSeq(packet, 3, delim_pos - 1))
        mode == Utf8Decode(DropLast(packet, delim_pos))
    IN  IF received_opcode.exc # "none" THEN received_opcode
        ELSE IF opcode # received_opcode.val THEN Raise("TFTPValueError")
        ELSE IF delim_pos = 0 THEN Raise("ValueError")
        ELSE IF filename.exc # "none" THEN filename
        ELSE IF mode.exc # "none" THEN mode
        ELSE Ok([filename |-> filename.val, mode |-> mode.val])

unpack_rrq(packet) == unpack_rrq_wrq(RRQ, packet)

unpack_wrq(packet) == unpack_rrq_wrq(WRQ, packet)

(***************************************************************************)
(* The environment: addresses, files and the datagrams a peer may send.    *)
(***************************************************************************)
ServerPort == 69
\* (server, port), the address the request goes to
RequestAddr == <<"server", ServerPort>>
\* the server's ephemeral transfer port, and a third party
Addrs == {RequestAddr, <<"server", 50000>>, <<"other", 40000>>}
NoAddr == <<"", 0>>

\* "a", and "\xe9" (not ASCII-printable)
RemoteNames == {<<97>>, <<233>>}
\* 'list.txt', the default of both parameters of dir_file
ListName == <<108, 105, 115, 116, 46, 116, 120, 116>>

\* the n-byte payload the peer puts in Data block b
Payload(b, n) == [i \in 1..n |-> (b + i) % 256]
\* the n-byte local source of an upload
Source(n) == [i \in 1..n |-> i % 251]
SrcLens == {0, 188, 512, 700, 1024}
PayloadLens == {0, 200, 512, 600}
\* what the local destination may hold before a download
PriorContents == {<<>>, <<7, 7, 7>>}
\* block numbers a peer may send: the first ones, one with a high byte,
\* and the last two that fit in 16 bits
Blocks == (0..(MaxRecv + 1)) \cup {257, MAX_BLOCK_NUMBER - 1, MAX_BLOCK_NUMBER}

DataDgram(b, n) == PackH(DAT) \o PackH(b) \o Payload(b, n)
AckDgram(b) == PackH(ACK) \o PackH(b)
ErrDgram(c, m) == PackH(ERR) \o PackH(c) \o m \o <<0>>
\* "", "No", and a message that is not UTF-8
ErrMsgs == {<<>>, <<78, 111>>, <<255>>}
ErrCodes == {0, 1, 2, 8}

Datagrams ==
    {DataDgram(b, n) : b \in Blocks, n \in PayloadLens}
    \cup {AckDgram(b) : b \in Blocks}
    \cup {ErrDgram(c, m) : c \in ErrCodes, m \in ErrMsgs}
    \cup {pack_rrq(<<97>>).val, pack_wrq(<<97>>).val}
    \cup {<<>>, <<0>>, <<0, 0>>, <<0, 6, 0, 1>>, <<0, 3>>, <<0, 4, 0>>,
          <<0, 4, 0, 1, 0>>, <<0, 5>>, <<0, 5, 0>>}

\* what sock.recvfrom gives: a datagram and its source, or socket.timeout
Timeout == [kind |-> "timeout", pkt |-> <<>>, addr |-> NoAddr]
Dgram(d, a) == [kind |-> "dgram", pkt |-> d, addr |-> a]
Events == {Timeout} \cup {Dgram(d, a) : d \in Datagrams, a \in Addrs}

(***************************************************************************)
(* How a call ends, as its caller sees it: a returned value, a raised      *)
(* exception (an Err carries error_code and error_msg), or SystemExit.     *)
(***************************************************************************)
NoResult ==
    [kind |-> "none", value |-> "", status |-> -1, exc |-> "none", error_code |-> -1,
     error_msg |-> <<>>]
Returned(v) == [NoResult EXCEPT !.kind = "return", !.value = v]
Raised(e) == [NoResult EXCEPT !.kind = "raise", !.exc = e]
\* Err(error_code, error_msg)
Err(c, m) == [NoResult EXCEPT !.kind = "raise", !.exc = "Err", !.error_code = c, !.error_msg = m]
\* sys.exit(status)
Exited(status) == [NoResult EXCEPT !.kind = "exit", !.status = status]

VARIABLES
    op,              \* the engine function running: "check", "get", "put", "dir", or "none"
    pc,              \* "idle", "recv" (blocked in sock.recvfrom), "done"
    remote_filename,
    block_number,
    file_size,       \* get_file's byte counter
    out_file,        \* contents of the local destination
    in_file,         \* contents of the local source
    in_pos,          \* read position of in_file
    sock_open,
    file_open,
    server_addr,     \* put_file's and dir_file's server_addr
    sent,            \* datagrams passed to sock.sendto, in order
    rcvd,            \* what sock.recvfrom gave, in order
    result,
    calls,           \* engine calls made so far
    cpc,             \* codec exercise: "off", "start", "packed", "unpacked", "decoded"
    cin,             \* the codec function under exercise and its arguments
    cpkt,            \* what the pack function gave
    cout,            \* what the unpack function gave
    cli_form,        \* cliente.py's command line: "shell" (bare <server>), "get", "put", "dir"
    cli_pc,          \* "off", "start", "prompt", "probe", "get", "transfer", "exited"
    cli_cmd,         \* the last command read at the shell's prompt
    cli_remote,      \* remote_file of the command line or of the shell command
    cli_status,      \* the process's exit status, -1 while it runs
    cli_log          \* the engine functions called so far, in order

session_vars ==
    <<op, pc, remote_filename, block_number, file_size, out_file, in_file,
      in_pos, sock_open, file_open, server_addr, sent, rcvd, result, calls>>

codec_vars == <<cpc, cin, cpkt, cout>>

cli_vars == <<cli_form, cli_pc, cli_cmd, cli_remote, cli_status, cli_log>>

vars == <<session_vars, codec_vars, cli_vars>>

\* no codec function called yet
NoOutcome == [exc |-> "unset", val |-> <<>>]
NoCall ==
    [fn |-> "none", filename |-> <<>>, mode |-> <<>>, block_number |-> 0, data |-> <<>>,
     error_code |-> 0, error_msg |-> <<>>, packet |-> <<>>]

\* no engine call yet
SessionIdle ==
    /\ op = "none"
    /\ pc = "idle"
    /\ remote_filename = <<>>
    /\ block_number = 0
    /\ file_size = 0
    /\ out_file = <<>>
    /\ in_file = <<>>
    /\ in_pos = 0
    /\ sock_open = FALSE
    /\ file_open = FALSE
    /\ server_addr = NoAddr
    /\ sent = <<>>
    /\ rcvd = <<>>
    /\ result = NoResult
    /\ calls = 0

CodecOff ==
    /\ cpc = "off"
    /\ cin = NoCall
    /\ cpkt = NoOutcome
    /\ cout = NoOutcome

\* cliente.py is not running
CliOff ==
    /\ cli_form = "none"
    /\ cli_pc = "off"
    /\ cli_cmd = "none"
    /\ cli_remote = <<>>
    /\ cli_status = -1
    /\ cli_log = <<>>

Init ==
    /\ SessionIdle
    /\ CodecOff
    /\ CliOff

(***************************************************************************)
(* Leaving a `with` block closes what it opened, on a return and on every  *)
(* exception (SystemExit too): the socket of each function, and the local  *)
(* file of get_file, put_file and dir_file.                                *)
(***************************************************************************)
with_socket_exit(res) == FALSE

\* a slip: sys.exit taken for an exit that skips the cleanup
with_open_exit_leak(res) == res.kind = "exit"

with_open_exit(res) == FALSE

\* the call ends with res: every enclosing `with` is left
Finish(res) ==
    /\ pc' = "done"
    /\ result' = res
    /\ sock_open' = with_socket_exit(res)
    /\ file_open' = with_open_exit(res)

\* the call blocks in the next sock.recvfrom
Continue ==
    /\ pc' = "recv"
    /\ UNCHANGED <<result, sock_open, file_open>>

\* a slip: every datagram goes to the request's (server, port)
Sendto_request(pkts, addr) ==
    sent' = sent \o [i \in 1..Len(pkts) |->
                        [pkt |-> pkts[i], addr |-> RequestAddr, after |-> Len(rcvd')]]

\* a slip: the transfer is bound to the source of the first reply
Sendto_first_reply(pkts, addr) ==
    sent' = sent \o [i \in 1..Len(pkts) |->
                        [pkt |-> pkts[i], addr |-> rcvd'[1].addr, after |-> Len(rcvd')]]

\* sock.sendto(pkt, addr), after Len(rcvd') receives
Sendto(pkts, addr) ==
    sent' = sent \o [i \in 1..Len(pkts) |-> [pkt |-> pkts[i], addr |-> addr, after |-> Len(rcvd')]]

\* a slip: the buffer is taken to be one full Data packet long
Recvfrom_one_block(ev) == Take(ev.pkt, 4 + MAX_DATA_LEN)

\* sock.recvfrom(DEFAULT_BUFFER_SIZE) keeps the first DEFAULT_BUFFER_SIZE bytes
Recvfrom(ev) == Take(ev.pkt, DEFAULT_BUFFER_SIZE)

(***************************************************************************)
(* One pass of a receive loop, as a function of the session and of what    *)
(* recvfrom gave: the bytes written to the local file, the datagrams sent  *)
(* (to `to`), the new block number, the bytes read from the local source,  *)
(* and how the call ends (NoResult: it loops).                             *)
(***************************************************************************)
Step(w, s, to, bn, rd, res) ==
    [write |-> w, send |-> s, to |-> to, block_number |-> bn, read |-> rd, res |-> res]

(***************************************************************************)
(* check_remote_file (tftp.py 64-95).                                      *)
(***************************************************************************)
\* a slip: the timeout is left to the caller
check_remote_file_timeout_raised == Raised("socket.timeout")

\* except socket.timeout: return False
check_remote_file_timeout == Returned("False")

\* a slip: every Error packet means "no such file"
check_remote_file_reply_any_err(packet) ==
    LET opcode == unpack_opcode(packet)
        e == unpack_err(packet)
    IN  IF opcode.exc # "none" THEN Raised(opcode.exc)
        ELSE IF opcode.val = DAT THEN Returned("True")
        ELSE IF opcode.val = ERR THEN
            IF e.exc # "none" THEN Raised(e.exc) ELSE Returned("False")
        ELSE Raised("ProtocolError")

\* the body of the loop, for a received packet: every branch returns or
\* raises; exceptions other than socket.timeout leave the function
check_remote_file_reply(packet) ==
    LET opcode == unpack_opcode(packet)
        e == unpack_err(packet)
    IN  IF opcode.exc # "none" THEN Raised(opcode.exc)
        ELSE IF opcode.val = DAT THEN Returned("True")
        ELSE IF opcode.val = ERR THEN
            IF e.exc # "none" THEN Raised(e.exc)
            ELSE IF e.val.error_code = ERR_FILE_NOT_FOUND THEN Returned("False")
            \* "File existence check error"
            ELSE Err(e.val.error_code,
                     <<70, 105, 108, 101, 32, 101, 120, 105, 115, 116, 101, 110, 99, 101, 32,
                       99, 104, 101, 99, 107, 32, 101, 114, 114, 111, 114>>)
        ELSE Raised("ProtocolError")

check_remote_file_call ==
    /\ pc = "idle"
    /\ calls < MaxCalls
    /\ \E fn \in RemoteNames :
        LET rrq == pack_rrq(fn) IN
        /\ op' = "check"
        /\ calls' = calls + 1
        /\ remote_filename' = fn
        /\ rcvd' = <<>>
        /\ block_number' = 0
        /\ file_size' = 0
        /\ in_pos' = 0
        /\ server_addr' = NoAddr
        /\ UNCHANGED <<out_file, in_file>>
        /\ IF rrq.exc # "none"
           THEN /\ sent' = <<>>
                /\ Finish(Raised(rrq.exc))
           ELSE /\ sent' = <<[pkt |-> rrq.val, addr |-> RequestAddr, after |-> 0]>>
                /\ pc' = "recv"
                /\ result' = NoResult
                /\ sock_open' = TRUE
                /\ file_open' = FALSE

check_remote_file_recv ==
    /\ pc = "recv"
    /\ op = "check"
    /\ Len(rcvd) < MaxRecv
    /\ \E ev \in Events :
        /\ rcvd' = Append(rcvd, ev)
        /\ Finish(IF ev.kind = "timeout" THEN check_remote_file_timeout
                  ELSE check_remote_file_reply(Recvfrom(ev)))
        /\ UNCHANGED <<op, remote_filename, block_number, file_size, out_file, in_file,
                       in_pos, server_addr, sent, calls>>

(***************************************************************************)
(* get_file (tftp.py 107-165).                                             *)
(***************************************************************************)
\* a slip: a timeout sends the request again and waits once more
get_file_except_retry(e, bn) ==
    IF e.exc = "socket.timeout"
    THEN Step(<<>>, <<pack_rrq(remote_filename).val>>, RequestAddr, bn, 0, NoResult)
    ELSE Step(<<>>, <<>>, NoAddr, bn, 0, Exited(1))

\* except Exception as e: print(f"Error: {e}"); sys.exit(1)
get_file_except(e, bn) == Step(<<>>, <<>>, NoAddr, bn, 0, Exited(1))

\* a slip: any block from the expected one on is taken
dat_block_at_least(dat_block_number, bn) == dat_block_number >= bn

\* dat_block_number == block_number
dat_block_expected(dat_block_number, bn) == dat_block_number = bn

\* a slip: only an empty packet ends the transfer
last_block_empty(data) == Len(data) = 0

\* len(data) < MAX_DATA_LEN: the short packet that ends the transfer
last_block(data) == Len(data) < MAX_DATA_LEN

\* the body of `while True`, with block_number = bn
get_file_loop(bn, ev) ==
    LET dat_packet == Recvfrom(ev)
        dat_opcode == unpack_opcode(dat_packet)
        dat == unpack_dat(dat_packet)
        ack_packet == pack_ack(bn)
        e == unpack_err(dat_packet)
    IN  IF ev.kind = "timeout" THEN get_file_except(Raised("socket.timeout"), bn)
        ELSE IF dat_opcode.exc # "none" THEN get_file_except(Raised(dat_opcode.exc), bn)
        ELSE IF dat_opcode.val = DAT THEN
            IF dat.exc # "none" THEN get_file_except(Raised(dat.exc), bn)
            ELSE IF dat_block_expected(dat.val.block_number, bn) THEN
                \* out_file.write(data) comes before pack_ack
                IF ack_packet.exc # "none"
                THEN [get_file_except(Raised(ack_packet.exc), bn) EXCEPT !.write = dat.val.data]
                ELSE Step(dat.val.data, <<ack_packet.val>>, ev.addr, bn + 1, 0,
                          IF last_block(dat.val.data) THEN Returned("True") ELSE NoResult)
            ELSE get_file_except(Raised("ProtocolError"), bn)
        ELSE IF dat_opcode.val = ERR THEN
            IF e.exc # "none" THEN get_file_except(Raised(e.exc), bn)
            ELSE get_file_except(Err(e.val.error_code, e.val.error_msg), bn)
        ELSE get_file_except(Raised("ProtocolError"), bn)

\* up to the first recvfrom: pack_rrq and open are outside the try
get_file_call ==
    /\ pc = "idle"
    /\ calls < MaxCalls
    /\ \E fn \in RemoteNames, open_ok \in BOOLEAN, prior \in PriorContents :
        LET rrq == pack_rrq(fn) IN
        /\ op' = "get"
        /\ calls' = calls + 1
        /\ remote_filename' = fn
        /\ rcvd' = <<>>
        /\ file_size' = 0
        /\ in_pos' = 0
        /\ server_addr' = NoAddr
        /\ UNCHANGED in_file
        /\ IF rrq.exc # "none"
           THEN /\ sent' = <<>>
                /\ out_file' = prior
                /\ block_number' = 0
                /\ Finish(Raised(rrq.exc))
           ELSE /\ sent' = <<[pkt |-> rrq.val, addr |-> RequestAddr, after |-> 0]>>
                /\ IF ~open_ok
                   THEN /\ out_file' = prior
                        /\ block_number' = 0
                        /\ Finish(Raised("OSError"))
                   ELSE \* open(local_filename, 'wb') truncates
                        /\ out_file' = <<>>
                        /\ block_number' = 1
                        /\ pc' = "recv"
                        /\ result' = NoResult
                        /\ sock_open' = TRUE
                        /\ file_open' = TRUE

get_file_recv ==
    /\ pc = "recv"
    /\ op = "get"
    /\ Len(rcvd) < MaxRecv
    /\ \E ev \in Events :
        LET st == get_file_loop(block_number, ev) IN
        /\ rcvd' = Append(rcvd, ev)
        /\ server_addr' = IF ev.kind = "dgram" THEN ev.addr ELSE server_addr
        /\ out_file' = out_file \o st.write
        /\ Sendto(st.send, st.to)
        /\ block_number' = st.block_number
        /\ file_size' = IF st.send # <<>> THEN file_size + Len(st.write) ELSE file_size
        /\ IF st.res.kind = "none" THEN Continue ELSE Finish(st.res)
        /\ UNCHANGED <<op, remote_filename, in_file, in_pos, calls>>

(***************************************************************************)
(* put_file (tftp.py 172-226).                                             *)
(***************************************************************************)
\* a slip: the failure is printed and the loop waits for the next datagram
put_file_except_ignore(e, bn) == Step(<<>>, <<>>, NoAddr, bn, 0, NoResult)

\* except Exception as e: print(f"Error: {e}"); sys.exit(1)
put_file_except(e, bn) == Step(<<>>, <<>>, NoAddr, bn, 0, Exited(1))

\* a slip: a duplicate of an earlier Ack is taken too
ack_block_at_most(ack_block_number, bn) == ack_block_number <= bn

\* ack_block_number == block_number
ack_block_expected(ack_block_number, bn) == ack_block_number = bn

\* a slip: every read starts at the beginning of the file
file_read_rewound(f, pos, n) == SubSeq(f, 1, IF n < Len(f) THEN n ELSE Len(f))

\* in_file.read(n) at position pos
file_read(f, pos, n) == SubSeq(f, pos + 1, IF pos + n < Len(f) THEN pos + n ELSE Len(f))

\* len(data) < MAX_DATA_LEN: the short packet after which put_file returns
last_data(data) == Len(data) < MAX_DATA_LEN

\* the body of `while True`, with block_number = bn and in_file at pos
put_file_loop(bn, pos, ev) ==
    LET ack_packet == Recvfrom(ev)
        ack_opcode == unpack_opcode(ack_packet)
        ack == unpack_ack(ack_packet)
        data == file_read(in_file, pos, MAX_DATA_LEN)
        dat_packet == pack_dat(bn + 1, data)
        e == unpack_err(ack_packet)
    IN  IF ev.kind = "timeout" THEN put_file_except(Raised("socket.timeout"), bn)
        ELSE IF ack_opcode.exc # "none" THEN put_file_except(Raised(ack_opcode.exc), bn)
        ELSE IF ack_opcode.val = ACK THEN
            IF ack.exc # "none" THEN put_file_except(Raised(ack.exc), bn)
            ELSE IF ack_block_expected(ack.val, bn) THEN
                \* block_number += 1 and in_file.read come before pack_dat
                IF dat_packet.exc # "none"
                THEN [put_file_except(Raised(dat_packet.exc), bn + 1) EXCEPT !.read = Len(data)]
                ELSE Step(<<>>, <<dat_packet.val>>, ev.addr, bn + 1, Len(data),
                          IF last_data(data) THEN Returned("True") ELSE NoResult)
            ELSE put_file_except(Raised("ProtocolError"), bn)
        ELSE IF ack_opcode.val = ERR THEN
            IF e.exc # "none" THEN put_file_except(Raised(e.exc), bn)
            ELSE put_file_except(Err(e.val.error_code, e.val.error_msg), bn)
        ELSE put_file_except(Raised("ProtocolError"), bn)

\* up to the first recvfrom: open, then pack_wrq, both inside the try
put_file_call ==
    /\ pc = "idle"
    /\ calls < MaxCalls
    /\ \E fn \in RemoteNames, open_ok \in BOOLEAN, n \in SrcLens :
        LET wrq == pack_wrq(fn) IN
        /\ op' = "put"
        /\ calls' = calls + 1
        /\ remote_filename' = fn
        /\ rcvd' = <<>>
        /\ file_size' = 0
        /\ in_pos' = 0
        /\ block_number' = 0
        /\ server_addr' = RequestAddr
        /\ in_file' = Source(n)
        /\ UNCHANGED out_file
        /\ IF ~open_ok
           THEN /\ sent' = <<>>
                /\ Finish(put_file_except(Raised("OSError"), 0).res)
           ELSE IF wrq.exc # "none"
           THEN /\ sent' = <<>>
                /\ Finish(put_file_except(Raised(wrq.exc), 0).res)
           ELSE /\ sent' = <<[pkt |-> wrq.val, addr |-> RequestAddr, after |-> 0]>>
                /\ pc' = "recv"
                /\ result' = NoResult
                /\ sock_open' = TRUE
                /\ file_open' = TRUE

put_file_recv ==
    /\ pc = "recv"
    /\ op = "put"
    /\ Len(rcvd) < MaxRecv
    /\ \E ev \in Events :
        LET st == put_file_loop(block_number, in_pos, ev) IN
        /\ rcvd' = Append(rcvd, ev)
        /\ server_addr' = IF ev.kind = "dgram" THEN ev.addr ELSE server_addr
        /\ in_pos' = in_pos + st.read
        /\ Sendto(st.send, st.to)
        /\ block_number' = st.block_number
        /\ IF st.res.kind = "none" THEN Continue ELSE Finish(st.res)
        /\ UNCHANGED <<op, remote_filename, in_file, out_file, file_size, calls>>

(***************************************************************************)
(* dir_file (tftp.py 232-290).                                             *)
(***************************************************************************)
\* a slip: the handlers, which are inside the loop, print and go on
dir_file_except_continue(e, bn) == Step(<<>>, <<>>, NoAddr, bn, 0, NoResult)

\* except socket.timeout: ...; sys.exit(1)
\* except Exception as e: ...; sys.exit(1)
dir_file_except(e, bn) == Step(<<>>, <<>>, NoAddr, bn, 0, Exited(1))

\* the body of `while True`; `break` leaves the function, which returns None
dir_file_loop(bn, ev) ==
    LET dat_packet == Recvfrom(ev)
        dat_opcode == unpack_opcode(dat_packet)
        dat == unpack_dat(dat_packet)
        ack_packet == pack_ack(bn)
        e == unpack_err(dat_packet)
    IN  IF ev.kind = "timeout" THEN dir_file_except(Raised("socket.timeout"), bn)
        ELSE IF dat_opcode.exc # "none" THEN dir_file_except(Raised(dat_opcode.exc), bn)
        ELSE IF dat_opcode.val = DAT THEN
            IF dat.exc # "none" THEN dir_file_except(Raised(dat.exc), bn)
            ELSE IF dat.val.block_number = bn THEN
                IF ack_packet.exc # "none"
                THEN [dir_file_except(Raised(ack_packet.exc), bn) EXCEPT !.write = dat.val.data]
                ELSE Step(dat.val.data, <<ack_packet.val>>, ev.addr, bn + 1, 0,
                          IF Len(dat.val.data) < MAX_DATA_LEN THEN Returned("None") ELSE NoResult)
            ELSE dir_file_except(Raised("ProtocolError"), bn)
        ELSE IF dat_opcode.val = ERR THEN
            IF e.exc # "none" THEN dir_file_except(Raised(e.exc), bn)
            ELSE dir_file_except(Err(e.val.error_code, e.val.error_msg), bn)
        ELSE dir_file_except(Raised("ProtocolError"), bn)

\* up to the first recvfrom, with the default 'list.txt' for both names
dir_file_call ==
    /\ pc = "idle"
    /\ calls < MaxCalls
    /\ \E open_ok \in BOOLEAN, prior \in PriorContents :
        LET rrq == pack_rrq(ListName) IN
        /\ op' = "dir"
        /\ calls' = calls + 1
        /\ remote_filename' = ListName
        /\ rcvd' = <<>>
        /\ file_size' = 0
        /\ in_pos' = 0
        /\ server_addr' = RequestAddr
        /\ UNCHANGED in_file
        /\ IF rrq.exc # "none"
           THEN /\ sent' = <<>>
                /\ out_file' = prior
                /\ block_number' = 0
                /\ Finish(Raised(rrq.exc))
           ELSE /\ sent' = <<[pkt |-> rrq.val, addr |-> RequestAddr, after |-> 0]>>
                /\ IF ~open_ok
                   THEN /\ out_file' = prior
                        /\ block_number' = 0
                        /\ Finish(Raised("OSError"))
                   ELSE /\ out_file' = <<>>
                        /\ block_number' = 1
                        /\ pc' = "recv"
                        /\ result' = NoResult
                        /\ sock_open' = TRUE
                        /\ file_open' = TRUE

dir_file_recv ==
    /\ pc = "recv"
    /\ op = "dir"
    /\ Len(rcvd) < MaxRecv
    /\ \E ev \in Events :
        LET st == dir_file_loop(block_number, ev) IN
        /\ rcvd' = Append(rcvd, ev)
        /\ server_addr' = IF ev.kind = "dgram" THEN ev.addr ELSE server_addr
        /\ out_file' = out_file \o st.write
        /\ Sendto(st.send, st.to)
        /\ block_number' = st.block_number
        /\ IF st.res.kind = "none" THEN Continue ELSE Finish(st.res)
        /\ UNCHANGED <<op, remote_filename, in_file, in_pos, file_size, calls>>

(***************************************************************************)
(* The caller has the outcome and the session is gone.  The model keeps no *)
(* file between calls: each call picks what its local files hold.          *)
(***************************************************************************)
Return ==
    /\ pc = "done"
    /\ op' = "none"
    /\ pc' = "idle"
    /\ remote_filename' = <<>>
    /\ block_number' = 0
    /\ file_size' = 0
    /\ out_file' = <<>>
    /\ in_file' = <<>>
    /\ in_pos' = 0
    /\ sock_open' = FALSE
    /\ file_open' = FALSE
    /\ server_addr' = NoAddr
    /\ sent' = <<>>
    /\ rcvd' = <<>>
    /\ result' = NoResult
    /\ UNCHANGED calls

\* the engine called directly, one call after the other
Next ==
    \/ check_remote_file_call /\ UNCHANGED <<codec_vars, cli_vars>>
    \/ check_remote_file_recv /\ UNCHANGED <<codec_vars, cli_vars>>
    \/ get_file_call /\ UNCHANGED <<codec_vars, cli_vars>>
    \/ get_file_recv /\ UNCHANGED <<codec_vars, cli_vars>>
    \/ put_file_call /\ UNCHANGED <<codec_vars, cli_vars>>
    \/ put_file_recv /\ UNCHANGED <<codec_vars, cli_vars>>
    \/ dir_file_call /\ UNCHANGED <<codec_vars, cli_vars>>
    \/ dir_file_recv /\ UNCHANGED <<codec_vars, cli_vars>>
    \/ Return /\ UNCHANGED <<codec_vars, cli_vars>>

Spec == Init /\ [][Next]_vars

(***************************************************************************)
(* The end of a long transfer.  The calls start where get_file, dir_file   *)
(* and put_file are after 65533 blocks went through in order: get_file and *)
(* dir_file wait for Data 65534, put_file has sent Data 65534 (a full      *)
(* block) and waits for its Ack.  The histories and the files are cut to   *)
(* what comes after that point: sent and rcvd start empty, out_file holds  *)
(* the bytes written from here on, in_file the bytes not yet read.         *)
(***************************************************************************)
LateBlock == MAX_BLOCK_NUMBER - 1

InitLate ==
    /\ CodecOff
    /\ CliOff
    /\ pc = "recv"
    /\ op \in {"get", "put", "dir"}
    /\ remote_filename = (IF op = "dir" THEN ListName ELSE <<97>>)
    /\ block_number = LateBlock
    /\ file_size = (IF op = "get" THEN MAX_DATA_LEN * (LateBlock - 1) ELSE 0)
    /\ out_file = <<>>
    /\ in_file \in (IF op = "put" THEN {Source(n) : n \in SrcLens} ELSE {<<>>})
    /\ in_pos = 0
    /\ sock_open = TRUE
    /\ file_open = TRUE
    /\ server_addr = <<"server", 50000>>
    /\ sent = <<>>
    /\ rcvd = <<>>
    /\ result = NoResult
    /\ calls = 1

NextLate ==
    \/ get_file_recv /\ UNCHANGED <<codec_vars, cli_vars>>
    \/ put_file_recv /\ UNCHANGED <<codec_vars, cli_vars>>
    \/ dir_file_recv /\ UNCHANGED <<codec_vars, cli_vars>>

SpecLate == InitLate /\ [][NextLate]_vars

(***************************************************************************)
(* One engine call followed to its end: check_remote_file and put_file     *)
(* from their first line, and the three transfers from the end of a long   *)
(* transfer (the 65533 receives that lead get_file and dir_file there are  *)
(* not enumerated).  sock.settimeout(INACTIVITY_TIMEOUT) makes every       *)
(* recvfrom return, with a datagram or with socket.timeout: a call blocked *)
(* in recvfrom takes its next receive step.                                *)
(***************************************************************************)
InitTerm == Init \/ InitLate

\* recvfrom returns
TermRecv ==
    \/ check_remote_file_recv /\ UNCHANGED <<codec_vars, cli_vars>>
    \/ get_file_recv /\ UNCHANGED <<codec_vars, cli_vars>>
    \/ put_file_recv /\ UNCHANGED <<codec_vars, cli_vars>>
    \/ dir_file_recv /\ UNCHANGED <<codec_vars, cli_vars>>

NextTerm ==
    \/ check_remote_file_call /\ UNCHANGED <<codec_vars, cli_vars>>
    \/ put_file_call /\ UNCHANGED <<codec_vars, cli_vars>>
    \/ TermRecv

SpecTerm == InitTerm /\ [][NextTerm]_vars /\ WF_vars(TermRecv)

(***************************************************************************)
(* cliente.py: main (22-67) and exec_tftp_shell (69-162) over the engine.  *)
(* An action runs the client up to its next engine call or up to the next  *)
(* input(); the engine's receive steps are the ones above.  Whether the    *)
(* server answers the ping and resolves (check_server,                     *)
(* resolve_server_address) and whether the local file of a put exists are  *)
(* the environment's choice.  print is left out.                           *)
(***************************************************************************)
\* the process ends: sys.exit(status), an uncaught exception (status 1), or
\* main returning (status 0)
ProcessExit(status) ==
    /\ cli_pc' = "exited"
    /\ cli_status' = status

\* the client calls an engine function
EngineCall(name, next_pc) ==
    /\ cli_pc' = next_pc
    /\ cli_log' = Append(cli_log, name)
    /\ UNCHANGED cli_status

\* exec_tftp_shell is running: main's else branch, taken by every command
\* line without get or put
InShell == cli_form \notin {"get", "put"}

\* main's else: exec_tftp_shell(server_name, server_port, server_ip)
main_dispatch_else ==
    /\ cli_pc' = "prompt"
    /\ UNCHANGED <<session_vars, cli_status, cli_log>>

\* main: check_server, resolve_server_address, then the branch of the form
cli_main ==
    /\ cli_pc = "start"
    /\ UNCHANGED <<cli_form, cli_cmd, cli_remote>>
    /\ \E server_ok \in BOOLEAN, exists \in BOOLEAN :
        IF ~server_ok
        THEN ProcessExit(1) /\ UNCHANGED <<session_vars, cli_log>>
        ELSE IF cli_form = "get"
        THEN /\ check_remote_file_call
             /\ remote_filename' = cli_remote
             /\ EngineCall("check", "probe")
        ELSE IF cli_form = "put"
        THEN IF ~exists
             THEN ProcessExit(1) /\ UNCHANGED <<session_vars, cli_log>>
             ELSE /\ put_file_call
                  /\ remote_filename' = cli_remote
                  /\ EngineCall("put", "transfer")
        ELSE main_dispatch_else

\* 'help', an unknown command, and 'get' or 'put' without arguments read
\* the next command at once
ShellCmds == {"get", "put", "dir", "help", "quit", "other"}

\* one pass of the shell's loop, from input() to the first engine call
cli_shell_cmd ==
    /\ cli_pc = "prompt"
    /\ UNCHANGED cli_form
    /\ \E cmd \in ShellCmds, f \in RemoteNames, server_ok \in BOOLEAN, exists \in BOOLEAN :
        /\ cli_cmd' = cmd
        /\ cli_remote' = (IF cmd \in {"get", "put"} THEN f ELSE cli_remote)
        /\ IF cmd = "get"
           THEN IF ~server_ok
                THEN ProcessExit(1) /\ UNCHANGED <<session_vars, cli_log>>
                ELSE /\ check_remote_file_call
                     /\ remote_filename' = f
                     /\ EngineCall("check", "probe")
           ELSE IF cmd = "put"
           THEN IF ~exists
                THEN UNCHANGED <<session_vars, cli_pc, cli_status, cli_log>>
                ELSE IF ~server_ok
                THEN ProcessExit(1) /\ UNCHANGED <<session_vars, cli_log>>
                ELSE /\ put_file_call
                     /\ remote_filename' = f
                     /\ EngineCall("put", "transfer")
           ELSE IF cmd = "dir"
           THEN dir_file_call /\ EngineCall("dir", "transfer")
           ELSE IF cmd = "quit"
           THEN ProcessExit(0) /\ UNCHANGED <<session_vars, cli_log>>
           ELSE UNCHANGED <<session_vars, cli_pc, cli_status, cli_log>>

\* the shell's `except Exception`: SystemExit is not an Exception
shell_except(res) == res.kind = "raise"

\* check_remote_file has ended: `if not check_remote_file(...)`
cli_after_probe ==
    /\ cli_pc = "probe"
    /\ pc = "done"
    /\ UNCHANGED <<cli_form, cli_cmd, cli_remote, cli_log>>
    /\ IF result = Returned("True")
       THEN Return /\ cli_pc' = "get" /\ UNCHANGED cli_status
       ELSE IF InShell /\ (result.kind = "return" \/ shell_except(result))
       THEN \* `continue`, or the handler's print
            Return /\ cli_pc' = "prompt" /\ UNCHANGED cli_status
       ELSE \* main: sys.exit(1), or the exception ends the process
            ProcessExit(1) /\ UNCHANGED session_vars

\* get_file(server, server_port, remote_file, local_file)
cli_get ==
    /\ cli_pc = "get"
    /\ get_file_call
    /\ remote_filename' = cli_remote
    /\ EngineCall("get", "transfer")
    /\ UNCHANGED <<cli_form, cli_cmd, cli_remote>>

\* get_file, put_file or dir_file has ended
cli_after_transfer ==
    /\ cli_pc = "transfer"
    /\ pc = "done"
    /\ UNCHANGED <<cli_form, cli_cmd, cli_remote, cli_log>>
    /\ IF InShell /\ (result.kind = "return" \/ shell_except(result))
       THEN Return /\ cli_pc' = "prompt" /\ UNCHANGED cli_status
       ELSE IF result.kind = "exit"
       THEN ProcessExit(result.status) /\ UNCHANGED session_vars
       ELSE IF result.kind = "raise"
       THEN ProcessExit(1) /\ UNCHANGED session_vars
       ELSE \* main returns
            ProcessExit(0) /\ UNCHANGED session_vars

InitCli ==
    /\ SessionIdle
    /\ CodecOff
    /\ cli_form \in {"shell", "get", "put", "dir"}
    /\ cli_pc = "start"
    /\ cli_cmd = "none"
    /\ cli_remote \in (IF cli_form \in {"get", "put"} THEN RemoteNames ELSE {<<>>})
    /\ cli_status = -1
    /\ cli_log = <<>>

NextCli ==
    \/ cli_main /\ UNCHANGED codec_vars
    \/ cli_shell_cmd /\ UNCHANGED codec_vars
    \/ cli_after_probe /\ UNCHANGED codec_vars
    \/ cli_get /\ UNCHANGED codec_vars
    \/ cli_after_transfer /\ UNCHANGED codec_vars
    \/ check_remote_file_recv /\ UNCHANGED <<codec_vars, cli_vars>>
    \/ get_file_recv /\ UNCHANGED <<codec_vars, cli_vars>>
    \/ put_file_recv /\ UNCHANGED <<codec_vars, cli_vars>>
    \/ dir_file_recv /\ UNCHANGED <<codec_vars, cli_vars>>

SpecCli == InitCli /\ [][NextCli]_vars

(***************************************************************************)
(* The packet codec on its own (tftp.py 300-389): a pack function applied  *)
(* to field values and the matching unpack function applied to what it     *)
(* gave, or an unpack function applied to the bytes of a datagram.         *)
(***************************************************************************)
\* '', 'a', 'a b', '\t~', and not printable: '\xe9', 'a\x00', '\x7f'
CodecNames == {<<>>, <<97>>, <<97, 32, 98>>, <<9, 126>>, <<233>>, <<97, 0>>, <<127>>}
\* 'octet', 'netascii'
CodecModes == {DEFAULT_MODE, <<110, 101, 116, 97, 115, 99, 105, 105>>}
CodecBlocks == {-1, 0, 1, 255, 256, MAX_BLOCK_NUMBER, MAX_BLOCK_NUMBER + 1}
CodecDataLens == {0, 1, MAX_DATA_LEN - 1, MAX_DATA_LEN, MAX_DATA_LEN + 1}
CodecCodes == -1..8
\* no message, '', 'No', '\xe9', 'a\x00b', 'o\xf1\x00'
CodecMsgs == {None, <<>>, <<78, 111>>, <<233>>, <<97, 0, 98>>, <<111, 241, 0>>}
PackFns == {"pack_rrq", "pack_wrq", "pack_dat", "pack_ack", "pack_err"}
UnpackFns ==
    {"unpack_opcode", "unpack_rrq", "unpack_wrq", "unpack_dat", "unpack_ack", "unpack_err"}

\* requests as a peer may frame them: well formed ('a', 'octet' and '',
\* 'octet'), with no NUL at all, with only the filename's NUL, with the
\* mode's NUL missing, with bytes after the mode's NUL, with a filename
\* that is not UTF-8
RequestFramings(opcode) ==
    { PackH(opcode) \o f : f \in
        { <<97, 0>> \o DEFAULT_MODE \o <<0>>,
          <<0>> \o DEFAULT_MODE \o <<0>>,
          <<>>,
          <<97>>,
          <<97>> \o DEFAULT_MODE,
          <<97, 0>>,
          <<97, 0>> \o DEFAULT_MODE,
          <<97, 0>> \o DEFAULT_MODE \o <<0, 120>>,
          <<97, 0>> \o DEFAULT_MODE \o <<0, 0>>,
          <<97, 0>> \o DEFAULT_MODE \o <<0, 120, 0>>,
          <<255, 0>> \o DEFAULT_MODE \o <<0>> } }

RawPackets == Datagrams \cup RequestFramings(RRQ) \cup RequestFramings(WRQ)

CodecCalls ==
    {[NoCall EXCEPT !.fn = f, !.filename = n, !.mode = m] :
        f \in {"pack_rrq", "pack_wrq"}, n \in CodecNames, m \in CodecModes}
    \cup {[NoCall EXCEPT !.fn = "pack_dat", !.block_number = b, !.data = Payload(b, n)] :
        b \in CodecBlocks, n \in CodecDataLens}
    \cup {[NoCall EXCEPT !.fn = "pack_ack", !.block_number = b] : b \in CodecBlocks}
    \cup {[NoCall EXCEPT !.fn = "pack_err", !.error_code = c, !.error_msg = m] :
        c \in CodecCodes, m \in CodecMsgs}
    \cup {[NoCall EXCEPT !.fn = f, !.packet = d] : f \in UnpackFns, d \in RawPackets}

\* pack_rrq(filename, mode) and pack_wrq(filename, mode) pass their mode on
Encode(call) ==
    CASE call.fn = "pack_rrq" -> pack_rrq_wrq(RRQ, call.filename, call.mode)
      [] call.fn = "pack_wrq" -> pack_rrq_wrq(WRQ, call.filename, call.mode)
      [] call.fn = "pack_dat" -> pack_dat(call.block_number, call.data)
      [] call.fn = "pack_ack" -> pack_ack(call.block_number)
      [] call.fn = "pack_err" -> pack_err(call.error_code, call.error_msg)

Decode(fn, packet) ==
    CASE fn = "unpack_opcode" -> unpack_opcode(packet)
      [] fn = "unpack_rrq" -> unpack_rrq(packet)
      [] fn = "unpack_wrq" -> unpack_wrq(packet)
      [] fn = "unpack_dat" -> unpack_dat(packet)
      [] fn = "unpack_ack" -> unpack_ack(packet)
      [] fn = "unpack_err" -> unpack_err(packet)

\* the unpack function of a pack function
Matching(fn) ==
    CASE fn = "pack_rrq" -> "unpack_rrq"
      [] fn = "pack_wrq" -> "unpack_wrq"
      [] fn = "pack_dat" -> "unpack_dat"
      [] fn = "pack_ack" -> "unpack_ack"
      [] fn = "pack_err" -> "unpack_err"

InitCodec ==
    /\ SessionIdle
    /\ CliOff
    /\ cpc = "start"
    /\ cin \in CodecCalls
    /\ cpkt = NoOutcome
    /\ cout = NoOutcome

codec_pack ==
    /\ cpc = "start"
    /\ cin.fn \in PackFns
    /\ cpkt' = Encode(cin)
    /\ cpc' = "packed"
    /\ UNCHANGED <<cin, cout>>
    /\ UNCHANGED <<session_vars, cli_vars>>

codec_unpack ==
    /\ cpc = "packed"
    /\ cpkt.exc = "none"
    /\ cout' = Decode(Matching(cin.fn), cpkt.val)
    /\ cpc' = "unpacked"
    /\ UNCHANGED <<cin, cpkt>>
    /\ UNCHANGED <<session_vars, cli_vars>>

codec_decode ==
    /\ cpc = "start"
    /\ cin.fn \in UnpackFns
    /\ cout' = Decode(cin.fn, cin.packet)
    /\ cpc' = "decoded"
    /\ UNCHANGED <<cin, cpkt>>
    /\ UNCHANGED <<session_vars, cli_vars>>

NextCodec ==
    \/ codec_pack
    \/ codec_unpack
    \/ codec_decode

SpecCodec == InitCodec /\ [][NextCodec]_vars

TypeOK ==
    /\ op \in {"none", "check", "get", "put", "dir"}
    /\ pc \in {"idle", "recv", "done"}
    /\ block_number \in 0..(MaxRecv + 1)
    /\ sock_open \in BOOLEAN
    /\ file_open \in BOOLEAN
    /\ calls \in 0..MaxCalls
    /\ Len(rcvd) <= MaxRecv
    /\ result.kind \in {"none", "return", "raise", "exit"}

(***************************************************************************)
(* Wire-level reading of the histories, for the properties below.          *)
(***************************************************************************)
\* the 4 bytes that open Data block b and Ack b
DataHeader(b) == <<0, 3, b \div 256, b % 256>>
AckHeader(b) == <<0, 4, b \div 256, b % 256>>
IsData(ev) == ev.kind = "dgram" /\ Len(ev.pkt) >= 4 /\ Take(ev.pkt, 2) = <<0, 3>>
IsAck(ev) == ev.kind = "dgram" /\ Len(ev.pkt) = 4 /\ Take(ev.pkt, 2) = <<0, 4>>
\* an Error packet of the data model: a code and a NUL-terminated ASCII message
IsError(ev) ==
    /\ ev.kind = "dgram"
    /\ Len(ev.pkt) >= 5
    /\ Take(ev.pkt, 2) = <<0, 5>>
    /\ ev.pkt[Len(ev.pkt)] = 0
    /\ \A i \in 5..Len(ev.pkt) : ev.pkt[i] < 128
BlockOf(ev) == ev.pkt[3] * 256 + ev.pkt[4]
PayloadOf(ev) == Drop(ev.pkt, 4)
Last(q) == q[Len(q)]

RECURSIVE ConcatPayloads(_)
ConcatPayloads(evs) ==
    IF evs = <<>> THEN <<>>
    ELSE ConcatPayloads(SubSeq(evs, 1, Len(evs) - 1)) \o PayloadOf(Last(evs))

\* the server answered the read request with Data 1..k in order, the first
\* k-1 of 512 bytes and the k-th shorter
InOrderRead ==
    /\ op = "get"
    /\ rcvd # <<>>
    /\ \A i \in 1..Len(rcvd) :
        /\ IsData(rcvd[i])
        /\ BlockOf(rcvd[i]) = i
        /\ i < Len(rcvd) => Len(PayloadOf(rcvd[i])) = 512
    /\ Len(PayloadOf(Last(rcvd))) < 512

\* C1: after Data 1..k in order (k-1 blocks of 512 bytes, then a shorter
\* one) get_file has written exactly the concatenation of the k payloads,
\* has sent after the request exactly the Acks 1..k in order, Ack n in
\* answer to the n-th datagram, and has returned True without a further
\* receive.
C1_InOrderReadCompletes ==
    InOrderRead =>
        /\ pc = "done"
        /\ result = Returned("True")
        /\ out_file = ConcatPayloads(rcvd)
        /\ file_size = Len(out_file)
        /\ Len(sent) = Len(rcvd) + 1
        /\ \A n \in 1..Len(rcvd) :
            /\ sent[n + 1].pkt = AckHeader(n)
            /\ sent[n + 1].after = n

\* the example of the claim: 512 + 200 bytes, two Acks
C1_Witness ==
    /\ InOrderRead
    /\ Len(rcvd) = 2
    /\ Len(PayloadOf(rcvd[2])) = 200
    /\ Len(out_file) = 712
    /\ Len(sent) = 3
    /\ pc = "done"

\* the server acknowledged 0, 1, 2, ... in order
InOrderWrite ==
    /\ op = "put"
    /\ rcvd # <<>>
    /\ \A i \in 1..Len(rcvd) : IsAck(rcvd[i]) /\ BlockOf(rcvd[i]) = i - 1

\* source bytes [512 (n - 1), 512 n) of the local source
SourceBlock(n) ==
    SubSeq(in_file, 512 * (n - 1) + 1, IF 512 * n < Len(in_file) THEN 512 * n ELSE Len(in_file))

\* C2: with Acks 0, 1, ... in order put_file sends the WriteRequest first
\* and then Data 1, 2, ..., Data n+1 in answer to Ack n with source bytes
\* [512n, 512n+512); it sends floor(N/512)+1 Data packets in all, the last
\* the only short one, and returns True right after sending it.
C2_InOrderWriteCompletes ==
    InOrderWrite =>
        /\ Len(rcvd) <= (Len(in_file) \div 512) + 1
        /\ Len(sent) = Len(rcvd) + 1
        /\ sent[1].pkt = <<0, 2>> \o remote_filename \o <<0>> \o DEFAULT_MODE \o <<0>>
        /\ sent[1].after = 0
        /\ \A n \in 1..Len(rcvd) :
            /\ sent[n + 1].pkt = DataHeader(n) \o SourceBlock(n)
            /\ sent[n + 1].after = n
            /\ (Len(sent[n + 1].pkt) < 4 + 512) <=> (n = (Len(in_file) \div 512) + 1)
        /\ IF Len(rcvd) = (Len(in_file) \div 512) + 1
           THEN pc = "done" /\ result = Returned("True")
           ELSE pc = "recv"

\* the example of the claim: 700 bytes, Data 1 of 512 and Data 2 of 188
C2_Witness ==
    /\ InOrderWrite
    /\ Len(in_file) = 700
    /\ Len(rcvd) = 2
    /\ Len(sent[2].pkt) = 4 + 512
    /\ Len(sent[3].pkt) = 4 + 188
    /\ pc = "done"
    /\ result = Returned("True")

\* C3: when get_file receives a Data packet whose block number is not the
\* expected one, that step writes nothing, sends nothing and ends the call
\* without success; and a call that has ended receives, writes and sends
\* nothing more and keeps its outcome.
C3_UnexpectedDataAborts ==
    [][/\ (/\ op = "get"
           /\ pc = "recv"
           /\ Len(rcvd') = Len(rcvd) + 1
           /\ IsData(Last(rcvd'))
           /\ BlockOf(Last(rcvd')) # block_number)
          => (/\ out_file' = out_file
              /\ sent' = sent
              /\ pc' = "done"
              /\ result'.kind \in {"raise", "exit"})
       /\ (op = "get" /\ pc = "done")
          => (pc' = "idle" \/ UNCHANGED <<rcvd, sent, out_file, result, pc>>)]_vars

\* block 3 arrived when block 2 was expected
C3_Witness ==
    /\ op = "get"
    /\ pc = "done"
    /\ Len(rcvd) = 2
    /\ IsData(rcvd[2])
    /\ BlockOf(rcvd[2]) = 3
    /\ Len(out_file) = 512
    /\ Len(sent) = 2
    /\ result.kind = "exit"

\* C4: when put_file receives an Ack whose block number is not the
\* expected one, that step sends nothing, reads nothing from the local
\* source and ends the call without success; and a call that has ended
\* receives, reads and sends nothing more and keeps its outcome.
C4_UnexpectedAckAborts ==
    [][/\ (/\ op = "put"
           /\ pc = "recv"
           /\ Len(rcvd') = Len(rcvd) + 1
           /\ IsAck(Last(rcvd'))
           /\ BlockOf(Last(rcvd')) # block_number)
          => (/\ in_pos' = in_pos
              /\ sent' = sent
              /\ pc' = "done"
              /\ result'.kind \in {"raise", "exit"})
       /\ (op = "put" /\ pc = "done")
          => (pc' = "idle" \/ UNCHANGED <<rcvd, sent, in_pos, result, pc>>)]_vars

\* Ack 0 arrived a second time
C4_Witness ==
    /\ op = "put"
    /\ pc = "done"
    /\ Len(rcvd) = 2
    /\ IsAck(rcvd[1]) /\ BlockOf(rcvd[1]) = 0
    /\ IsAck(rcvd[2]) /\ BlockOf(rcvd[2]) = 0
    /\ Len(sent) = 2
    /\ in_pos = 512
    /\ result.kind = "exit"

\* C5: check_remote_file ends at its first receive, and for a datagram its
\* outcome depends on that datagram alone: opcode Data returns True; an
\* Error packet with code 1 returns False; an Error packet with another
\* code raises Err with that code; opcode RRQ, WRQ or ACK raises
\* ProtocolError.
C5_ProbeDecidesOnFirstDatagram ==
    op = "check" =>
        /\ Len(rcvd) <= 1
        /\ rcvd # <<>> => pc = "done"
        /\ (rcvd # <<>> /\ rcvd[1].kind = "dgram" /\ Len(rcvd[1].pkt) >= 2) =>
            LET ev == rcvd[1] IN
            /\ Take(ev.pkt, 2) = <<0, 3>> => result = Returned("True")
            /\ (IsError(ev) /\ BlockOf(ev) = 1) => result = Returned("False")
            /\ (IsError(ev) /\ BlockOf(ev) # 1) =>
                /\ result.kind = "raise"
                /\ result.exc = "Err"
                /\ result.error_code = BlockOf(ev)
            /\ Take(ev.pkt, 2) \in {<<0, 1>>, <<0, 2>>, <<0, 4>>} =>
                result = Raised("ProtocolError")

\* an Error packet with a code other than File-Not-Found was the reply
C5_Witness ==
    /\ op = "check"
    /\ pc = "done"
    /\ Len(rcvd) = 1
    /\ IsError(rcvd[1])
    /\ BlockOf(rcvd[1]) = 2
    /\ result.exc = "Err"
    /\ result.error_code = 2

\* the probed endpoint never replied
ProbeUnanswered ==
    /\ op = "check"
    /\ pc = "done"
    /\ \A i \in 1..Len(rcvd) : rcvd[i].kind = "timeout"

\* C6 as stated: a probe of an endpoint that never replies returns False
\* and never raises.
C6_Original == ProbeUnanswered => result = Returned("False")

\* C6: a probe of an endpoint that never replies, for a remote filename
\* that is ASCII-printable, ends when the timeout fires and returns False,
\* whatever the number of calls made before; and every probe starts from a
\* fresh session: one request sent to (server, port), nothing received, its
\* own open socket.
C6_UnansweredProbeIsFalse ==
    /\ (ProbeUnanswered /\ is_ascii_printable(remote_filename)) =>
        /\ rcvd = <<Timeout>>
        /\ result = Returned("False")
    /\ (op = "check" /\ pc = "recv") =>
        /\ rcvd = <<>>
        /\ Len(sent) = 1
        /\ sent[1].pkt = <<0, 1>> \o remote_filename \o <<0>> \o DEFAULT_MODE \o <<0>>
        /\ sent[1].addr = RequestAddr
        /\ sock_open
        /\ result = NoResult

\* the probe timed out again in a later call
C6_Witness ==
    /\ calls >= 2
    /\ ProbeUnanswered
    /\ rcvd = <<Timeout>>
    /\ result = Returned("False")

\* the call was ended by an Error packet (for the probe, one whose code is
\* not File-Not-Found)
ErrorEnded ==
    /\ op \in {"check", "get", "put", "dir"}
    /\ pc = "done"
    /\ rcvd # <<>>
    /\ IsError(Last(rcvd))
    /\ op = "check" => BlockOf(Last(rcvd)) # 1

\* C7: a call ended by an Error packet hands its caller the server's error
\* code and the server's message text, both unchanged.
C7_ServerErrorSurfaced ==
    ErrorEnded =>
        /\ result.error_code = BlockOf(Last(rcvd))
        /\ result.error_msg = DropLast(Last(rcvd).pkt, 4)

\* C8: when get_file, put_file or check_remote_file fails on a receive, the
\* caller gets the exception of the cause: a timeout for an expired
\* receive, Err for an Error packet, ProtocolError for a legal opcode that
\* is not expected and for a Data or Ack packet out of sequence, and a
\* codec error for a datagram that does not decode.
C8_FailureKindMatchesCause ==
    (op \in {"check", "get", "put"} /\ pc = "done" /\ rcvd # <<>> /\ result.kind # "return") =>
        LET ev == Last(rcvd) IN
        /\ result.kind = "raise"
        /\ ev.kind = "timeout" => result.exc = "socket.timeout"
        /\ IsError(ev) => result.exc = "Err"
        /\ (ev.kind = "dgram" /\ Len(ev.pkt) >= 2 /\ Take(ev.pkt, 2) \in {<<0, 1>>, <<0, 2>>})
            => result.exc = "ProtocolError"
        /\ (IsData(ev) /\ op = "get") => result.exc = "ProtocolError"
        /\ (IsAck(ev) /\ op = "put") => result.exc = "ProtocolError"
        /\ (ev.kind = "dgram" /\ Len(ev.pkt) < 2)
            => result.exc \in {"TFTPValueError", "struct.error", "UnicodeDecodeError"}

IsRequest(s) == Len(s.pkt) >= 2 /\ Take(s.pkt, 2) \in {<<0, 1>>, <<0, 2>>}
Requests == {i \in 1..Len(sent) : IsRequest(sent[i])}

\* nothing is sent twice, nothing is sent but in answer to a datagram, and
\* a timeout or another failure sends nothing
NothingRepeated ==
    op \in {"get", "put"} =>
        /\ \A i, j \in 1..Len(sent) :
            i # j => /\ Take(sent[i].pkt, 4) # Take(sent[j].pkt, 4)
                     /\ sent[i].after # sent[j].after
        /\ \A i \in 1..Len(sent) :
            sent[i].after >= 1 => rcvd[sent[i].after].kind = "dgram"
        /\ \A k \in 1..Len(rcvd) :
            rcvd[k].kind = "timeout" =>
                /\ k = Len(rcvd)
                /\ pc = "done"
                /\ result.kind # "return"
        /\ (pc = "done" /\ result.kind # "return" /\ rcvd # <<>>) =>
            \A i \in 1..Len(sent) : sent[i].after < Len(rcvd)

\* C9 as stated: in every run of get_file and put_file the request is sent
\* exactly once, and nothing is retransmitted.
C9_Original ==
    /\ NothingRepeated
    /\ (op \in {"get", "put"} /\ pc = "done") => Cardinality(Requests) = 1

\* C9: in get_file and put_file the request is sent at most once, and
\* exactly once, first, in every run that reaches a receive; each Ack(n)
\* and Data(n) is sent at most once; at most one datagram is sent per
\* datagram received and none otherwise; a timeout ends the call without
\* success; and after a timeout or any other failure nothing more is sent.
C9_NothingRetransmitted ==
    /\ [](/\ NothingRepeated
          /\ op \in {"get", "put"} =>
                /\ Cardinality(Requests) <= 1
                /\ (pc = "recv" \/ rcvd # <<>>) => Requests = {1} /\ sent[1].after = 0)
    /\ [][(op \in {"get", "put"} /\ pc = "done") => (pc' = "idle" \/ sent' = sent)]_vars

\* a timeout after one acknowledged block
C9_Witness ==
    /\ op = "get"
    /\ pc = "done"
    /\ Len(rcvd) = 2
    /\ rcvd[2].kind = "timeout"
    /\ Len(sent) = 2
    /\ result.kind = "exit"

\* C10: when a call has ended, however it ended, its socket is closed and
\* its local file is closed.
C10_ResourcesReleased ==
    pc = "done" => ~sock_open /\ ~file_open

\* get_file left through sys.exit with its destination open and written
C10_Witness ==
    /\ op = "get"
    /\ pc = "done"
    /\ result.kind = "exit"
    /\ Len(rcvd) = 2
    /\ Len(out_file) = 512
    /\ ~sock_open
    /\ ~file_open

\* C11: in get_file, put_file and dir_file only the request goes to the
\* original (server, port); every datagram sent after it (an Ack of
\* get_file or dir_file, a Data of put_file) is addressed to the source
\* address, host and port, of the datagram it answers.
C11_RepliesFollowSource ==
    op \in {"get", "put", "dir"} =>
        \A i \in 1..Len(sent) :
            IF sent[i].after = 0
            THEN i = 1 /\ sent[i].addr = RequestAddr
            ELSE /\ rcvd[sent[i].after].kind = "dgram"
                 /\ sent[i].addr = rcvd[sent[i].after].addr

\* put_file answered Ack 0 from the server's transfer port and Ack 1 from
\* yet another host, each Data to where its Ack came from
C11_Witness ==
    /\ op = "put"
    /\ Len(rcvd) = 2
    /\ Len(sent) = 3
    /\ sent[1].addr = RequestAddr
    /\ rcvd[1].addr = <<"server", 50000>>
    /\ sent[2].addr = <<"server", 50000>>
    /\ rcvd[2].addr = <<"other", 40000>>
    /\ sent[3].addr = <<"other", 40000>>

\* the text has a character outside 9..13 and 32..126
NotPrintable(txt) == \E i \in 1..Len(txt) : txt[i] < 9 \/ txt[i] > 126 \/ txt[i] \in 14..31

\* C14: with a remote filename that has a character that is not
\* ASCII-printable, check_remote_file, get_file and put_file end in failure
\* with no datagram sent and none awaited.
C14_BadNameNoNetwork ==
    (op \in {"check", "get", "put"} /\ NotPrintable(remote_filename)) =>
        /\ pc = "done"
        /\ sent = <<>>
        /\ rcvd = <<>>
        /\ result.kind \in {"raise", "exit"}
        /\ op \in {"check", "get"} => result = Raised("TFTPValueError")

\* put_file of a non-printable remote name: sys.exit(1) with nothing sent
C14_Witness ==
    /\ op = "put"
    /\ remote_filename = <<233>>
    /\ pc = "done"
    /\ sent = <<>>
    /\ rcvd = <<>>
    /\ result = Exited(1)

\* C17: no Data packet with a payload longer than 512 bytes is sent or
\* accepted: put_file sends none, and get_file and dir_file neither
\* acknowledge nor write to the destination a received Data packet whose
\* payload is longer than 512 bytes.
C17_NoOversizedData ==
    /\ op = "put" =>
        \A i \in 1..Len(sent) : IsData([kind |-> "dgram", pkt |-> sent[i].pkt]) =>
            Len(sent[i].pkt) <= 4 + MAX_DATA_LEN
    /\ op \in {"get", "dir"} =>
        /\ \A i \in 2..Len(sent) :
              Len(PayloadOf(rcvd[sent[i].after])) <= MAX_DATA_LEN
        /\ Len(out_file) <= MAX_DATA_LEN * (Len(sent) - 1)

\* the fields of a pack call are valid: an ASCII-printable filename, a
\* block number in 0..65535, a payload of at most 512 bytes, an error code
\* in 0..7
ValidFields(call) ==
    CASE call.fn \in {"pack_rrq", "pack_wrq"} -> ~NotPrintable(call.filename)
      [] call.fn = "pack_dat" ->
            call.block_number \in 0..65535 /\ Len(call.data) <= 512
      [] call.fn = "pack_ack" -> call.block_number \in 0..65535
      [] call.fn = "pack_err" -> call.error_code \in 0..7
      [] OTHER -> FALSE

\* C12: for every packet kind and valid field values, the matching unpack
\* function applied to the packed bytes returns exactly the original
\* fields (for an Error packed without a message, the canonical message of
\* its code).
C12_RoundTrip ==
    (cpc = "unpacked" /\ ValidFields(cin)) =>
        /\ cout.exc = "none"
        /\ CASE cin.fn \in {"pack_rrq", "pack_wrq"} ->
                  cout.val = [filename |-> cin.filename, mode |-> cin.mode]
             [] cin.fn = "pack_dat" ->
                  cout.val = [block_number |-> cin.block_number, data |-> cin.data]
             [] cin.fn = "pack_ack" -> cout.val = cin.block_number
             [] cin.fn = "pack_err" ->
                  /\ cout.val.error_code = cin.error_code
                  /\ cout.val.error_msg =
                        IF cin.error_msg = None THEN ERROR_MESSAGES[cin.error_code]
                        ELSE cin.error_msg

\* Error 2 with the message '\xe9': two UTF-8 bytes on the wire, one
\* character back
C12_Witness ==
    /\ cpc = "unpacked"
    /\ cin.fn = "pack_err"
    /\ cin.error_code = 2
    /\ cin.error_msg = <<233>>
    /\ cpkt.val = <<0, 5, 0, 2, 195, 169, 0>>
    /\ cout.val.error_msg = <<233>>

\* C13: a pack function fails, with a ValueError (TFTPValueError), exactly
\* when a field is invalid; otherwise it succeeds, and an Error packed
\* without a message carries the canonical message of its code.
C13_EncodeFailsIffInvalid ==
    cpc \in {"packed", "unpacked"} =>
        /\ cpkt.exc \in {"none", "TFTPValueError"}
        /\ cpkt.exc = "TFTPValueError" <=> ~ValidFields(cin)
        /\ (cin.fn = "pack_err" /\ cin.error_msg = None /\ cin.error_code \in 0..7) =>
              cpkt.val = <<0, 5, 0, cin.error_code>> \o ERROR_MESSAGES[cin.error_code] \o <<0>>

\* Error 8 is refused
C13_Witness ==
    /\ cpc = "packed"
    /\ cin.fn = "pack_err"
    /\ cin.error_code = 8
    /\ cin.error_msg = <<78, 111>>
    /\ cpkt.exc = "TFTPValueError"

\* the leading 2-byte opcode of a datagram
OpcodeOf(packet) == packet[1] * 256 + packet[2]
\* the opcode an unpack function expects
Expected(fn) ==
    CASE fn = "unpack_rrq" -> 1
      [] fn = "unpack_wrq" -> 2
      [] fn = "unpack_dat" -> 3
      [] fn = "unpack_ack" -> 4
      [] fn = "unpack_err" -> 5

\* C15: decoding a datagram whose opcode is not one of 1..5 fails with
\* ProtocolError, and each concrete decoder fails with ProtocolError when
\* the opcode is not the one of its kind.
C15_BadOpcodeIsProtocolError ==
    (cpc = "decoded" /\ Len(cin.packet) >= 4) =>
        /\ OpcodeOf(cin.packet) \notin 1..5 => cout.exc = "ProtocolError"
        /\ (cin.fn # "unpack_opcode" /\ OpcodeOf(cin.packet) # Expected(cin.fn)) =>
              cout.exc = "ProtocolError"

\* the bytes after the opcode are filename, NUL, mode, NUL, with no NUL in
\* filename or mode
WellFramed(packet) ==
    /\ Len(packet) >= 4
    /\ packet[Len(packet)] = 0
    /\ Cardinality({i \in 3..Len(packet) : packet[i] = 0}) = 2

\* C19: unpack_rrq and unpack_wrq split filename from mode at the first
\* NUL after the opcode, and reject a packet with no NUL after the opcode,
\* with a mode not ended by a final NUL, or with bytes after the mode's NUL.
C19_MalformedFramingRejected ==
    (/\ cpc = "decoded"
     /\ cin.fn \in {"unpack_rrq", "unpack_wrq"}
     /\ Len(cin.packet) >= 2
     /\ OpcodeOf(cin.packet) = Expected(cin.fn)) =>
        IF WellFramed(cin.packet)
        THEN cout.exc = "none" =>
                Len(cout.val.filename) = IndexNul(cin.packet) - 3
        ELSE cout.exc # "none"

\* the datagrams that were answered, in the order of the answers
RECURSIVE Answered(_)
Answered(n) ==
    IF n = 0 THEN <<>> ELSE Append(Answered(n - 1), rcvd[sent[n].after])

\* C18: block numbers never wrap.  Late in a long transfer every Ack and
\* Data sent carries the unreduced value of the block counter, which is at
\* most 65535 and never goes down; put_file, once block 65535 is
\* acknowledged, ends at the encoding of block 65536 and sends no block 0;
\* get_file and dir_file, once they acknowledged block 65535, accept no
\* further Data block.
C18_BlockNumbersNeverWrap ==
    /\ [](/\ block_number <= 65536
          /\ \A i \in 1..Len(sent) :
                /\ Len(sent[i].pkt) >= 4
                /\ Take(sent[i].pkt, 2) = (IF op = "put" THEN <<0, 3>> ELSE <<0, 4>>)
                /\ BlockOf(sent[i]) = (IF op = "put" THEN 65534 + i ELSE 65533 + i)
          /\ (op = "put" /\ block_number = 65536) => (pc = "done" /\ result = Exited(1))
          /\ op \in {"get", "dir"} => out_file = ConcatPayloads(Answered(Len(sent))))
    /\ [][block_number' >= block_number]_vars

\* get_file acknowledged 65534 and 65535 and was then sent block 0
C18_Witness ==
    /\ op = "get"
    /\ block_number = 65536
    /\ Len(rcvd) = 3
    /\ IsData(rcvd[3])
    /\ BlockOf(rcvd[3]) = 0
    /\ Len(sent) = 2
    /\ Len(out_file) = 1024
    /\ pc = "done"
    /\ result = Exited(1)

\* q is an initial part of s
IsPrefix(q, s) == Len(q) <= Len(s) /\ q = SubSeq(s, 1, Len(q))

\* C16: each one-shot form runs its own operation: get the probe and then
\* get_file, put put_file, dir the listing transfer (dir_file, a read
\* request for list.txt); only the bare <server> form starts the shell.
C16_OneShotFormsRunTheirOperation ==
    /\ cli_form = "get" => IsPrefix(cli_log, <<"check", "get">>)
    /\ cli_form = "put" => IsPrefix(cli_log, <<"put">>)
    /\ cli_form = "dir" => IsPrefix(cli_log, <<"dir">>)
    /\ (cli_form = "dir" /\ Len(cli_log) = 1 /\ op = "dir" /\ sent # <<>>) =>
          sent[1].pkt = <<0, 1>> \o ListName \o <<0>> \o DEFAULT_MODE \o <<0>>
    /\ cli_pc = "prompt" => cli_form = "shell"

\* a get_file, put_file or dir_file call ended in failure on what it
\* received: an Error packet, a protocol violation, or a timeout
TransferFailed ==
    /\ op \in {"get", "put", "dir"}
    /\ pc = "done"
    /\ rcvd # <<>>
    /\ result.kind \in {"raise", "exit"}

\* C20: in the shell a get, put or dir whose transfer fails returns to the
\* prompt: it does not end the shell process, which only quit ends; in
\* one-shot mode the same failure ends the process.
C20_ShellSurvivesFailure ==
    /\ (InShell /\ TransferFailed) => cli_pc # "exited"
    /\ (~InShell /\ TransferFailed /\ cli_pc = "exited") => cli_status # 0

\* get_file(server, port, 'list.txt', 'list.txt') run on the events evs,
\* its destination opened: what it sent, what it wrote, its block counter
\* and how it ended (NoResult: it waits for the next event)
RECURSIVE GetFileOn(_)
GetFileOn(evs) ==
    IF evs = <<>>
    THEN [sent |-> <<[pkt |-> pack_rrq(ListName).val, addr |-> RequestAddr, after |-> 0]>>,
          out_file |-> <<>>, block_number |-> 1, res |-> NoResult]
    ELSE LET before == GetFileOn(SubSeq(evs, 1, Len(evs) - 1))
             st == get_file_loop(before.block_number, Last(evs))
         IN  [sent |-> before.sent \o
                        [i \in 1..Len(st.send) |->
                            [pkt |-> st.send[i], addr |-> st.to, after |-> Len(evs)]],
              out_file |-> before.out_file \o st.write,
              block_number |-> st.block_number,
              res |-> st.res]

\* how a call stands: still receiving, completed, or aborted
Outcome(res) ==
    IF res.kind = "none" THEN "receiving"
    ELSE IF res.kind = "return" THEN "completed"
    ELSE "aborted"

\* C21: on every sequence of datagrams and timeouts dir_file(server, port)
\* and get_file(server, port, 'list.txt', 'list.txt') send the same
\* datagrams to the same addresses in the same order, write the same bytes
\* to the local file, and end alike: both complete on the short Data
\* packet, or both abort at the same event in the same way.
C21_DirIsGetOfListTxt ==
    (op = "dir" /\ block_number >= 1) =>
        LET g == GetFileOn(rcvd) IN
        /\ sent = g.sent
        /\ out_file = g.out_file
        /\ block_number = g.block_number
        /\ Outcome(result) = Outcome(g.res)
        /\ Outcome(result) = "aborted" => result = g.res

\* a listing of 512 + 200 bytes: dir_file returns (None) where get_file
\* returns True, after the same two Acks
C21_Witness ==
    /\ op = "dir"
    /\ pc = "done"
    /\ Len(rcvd) = 2
    /\ Len(out_file) = 712
    /\ Len(sent) = 3
    /\ result = Returned("None")
    /\ GetFileOn(rcvd).res = Returned("True")
    /\ GetFileOn(rcvd).sent = sent

\* the datagrams get_file acknowledged, in order (sent[1] is the request)
AcceptedData == [n \in 1..(Len(sent) - 1) |-> rcvd[sent[n + 1].after]]

\* C22: in every state of get_file after the destination is opened, with
\* e the expected block number, exactly e-1 Acks have been sent, numbered
\* 1..e-1, each for a received Data packet of that number; the destination
\* holds exactly the concatenation of the payloads of these e-1 packets;
\* and the bytes-transferred counter is the destination's length.  The
\* destination is empty when the first receive starts, so an aborted read
\* leaves this prefix.
C22_PrefixInvariant ==
    /\ [](( op = "get" /\ block_number >= 1) =>
            /\ Len(sent) = block_number
            /\ \A n \in 1..(block_number - 1) :
                  /\ sent[n + 1].pkt = AckHeader(n)
                  /\ IsData(AcceptedData[n])
                  /\ BlockOf(AcceptedData[n]) = n
            /\ out_file = ConcatPayloads(AcceptedData)
            /\ file_size = Len(out_file))
    /\ [][(pc = "idle" /\ op' = "get" /\ pc' = "recv") => out_file' = <<>>]_vars

\* a read aborted by an Error packet after one full block: the block stays
C22_Witness ==
    /\ op = "get"
    /\ pc = "done"
    /\ result = Exited(1)
    /\ block_number = 2
    /\ Len(rcvd) = 2
    /\ IsError(rcvd[2])
    /\ out_file = PayloadOf(rcvd[1])
    /\ file_size = 512

\* the datagrams and timeouts the call has received since it began: late
\* in a long transfer, the 65533 of the cut history count too
Received == (IF block_number >= 65534 THEN 65533 ELSE 0) + Len(rcvd)

\* C23: every engine call ends, given that each recvfrom returns.
\* check_remote_file ends at its first receive; put_file of an N-byte
\* source ends after at most floor(N/512)+1 receives; get_file and
\* dir_file end after at most 65536 receives; and every receive either
\* advances the expected block number by one or ends the call.
C23_EveryCallTerminates ==
    /\ [](/\ op = "check" => Len(rcvd) <= 1 /\ (Len(rcvd) = 1 => pc = "done")
          /\ op = "put" =>
                /\ Len(rcvd) <= (Len(in_file) \div 512) + 1
                /\ Len(rcvd) = (Len(in_file) \div 512) + 1 => pc = "done"
          /\ op \in {"get", "dir"} =>
                /\ Received <= 65536
                /\ Received = 65536 => pc = "done")
    /\ [][(pc = "recv" /\ rcvd' # rcvd) =>
            (pc' = "done" \/ block_number' = block_number + 1)]_vars
    /\ (pc = "recv") ~> (pc = "done")

\* dir_file at its 65536th receive: blocks 65534 and 65535 were taken, and
\* whatever comes next ends the call
C23_Witness ==
    /\ op = "dir"
    /\ block_number = 65536
    /\ Received = 65536
    /\ Len(sent) = 2
    /\ pc = "done"
    /\ result = Exited(1)

\* C24: a transfer is not bound to the address of the first reply: what
\* is done with a datagram does not depend on where it came from.  In
\* get_file (and dir_file) a Data packet with the expected block number,
\* from any address, is acknowledged to that address; in put_file the next
\* Data block goes to whichever address sent the matching Ack; an Error or
\* out-of-sequence packet from any address aborts the transfer; and no
\* Error packet (Unknown Transfer ID or other) is ever sent.
C24_NoTransferIdBinding ==
    /\ \A i \in 1..Len(sent) : Len(sent[i].pkt) >= 2 /\ Take(sent[i].pkt, 2) # <<0, 5>>
    /\ (op \in {"get", "dir"} /\ block_number >= 1) =>
          \A i \in 1..Len(rcvd) :
              IF IsData(rcvd[i]) /\ BlockOf(rcvd[i]) = i
              THEN /\ Len(sent) >= i + 1
                   /\ sent[i + 1] = [pkt |-> AckHeader(i), addr |-> rcvd[i].addr, after |-> i]
              ELSE /\ i = Len(rcvd)
                   /\ Len(sent) = i
                   /\ pc = "done"
                   /\ result = Exited(1)
    /\ (op = "put" /\ sent # <<>>) =>
          \A i \in 1..Len(rcvd) :
              IF IsAck(rcvd[i]) /\ BlockOf(rcvd[i]) = i - 1
              THEN /\ Len(sent) >= i + 1
                   /\ Take(sent[i + 1].pkt, 4) = DataHeader(i)
                   /\ sent[i + 1].addr = rcvd[i].addr
              ELSE /\ i = Len(rcvd)
                   /\ Len(sent) = i
                   /\ pc = "done"
                   /\ result = Exited(1)

\* get_file took Data 1 from the server's transfer port and Data 2 from a
\* third party, which got the Ack, and was then aborted by an Error packet
\* from the request port
C24_Witness ==
    /\ op = "get"
    /\ Len(rcvd) = 3
    /\ rcvd[1].addr = <<"server", 50000>>
    /\ rcvd[2].addr = <<"other", 40000>>
    /\ sent[3] = [pkt |-> AckHeader(2), addr |-> <<"other", 40000>>, after |-> 2]
    /\ Len(out_file) = 1024
    /\ IsError(rcvd[3])
    /\ rcvd[3].addr = RequestAddr
    /\ pc = "done"
    /\ result = Exited(1)

====
